---- MODULE Spec2Model ----
(***************************************************************************)
(* Model of ScheduleGenerator (modelo_horarios.py): the availability       *)
(* pre-check, the normalisation of 'HH:MM-HH:MM' ranges into 30-minute     *)
(* slot indices, the enumeration of candidate blocks, the CP-SAT model     *)
(* (decision variables and the eight constraint groups), the solver call   *)
(* and the extraction of the schedule.                                     *)
(*                                                                         *)
(* A range string 'HH:MM-HH:MM' is the record [sh, sm, eh, em] of the four *)
(* integers the code reads out of it with split and int.  An ordered       *)
(* mapping (a Python dict) is a sequence of records carrying their key in  *)
(* the field id; teacher_availabilities is a function teacher -> day ->    *)
(* sequence.  Candidate indices are 1-based (enumerate's idx + 1).         *)
(***************************************************************************)
EXTENDS Integers, Sequences, FiniteSets, TLC

VARIABLES teacher_availabilities, normalized, courses, classrooms, schedule,
          all_blocks, schedule_vars, classroom_vars, posted, status,
          sol_x, sol_y, solver_calls, pc, error,
          declared, invocations, response, other, cur

vars == <<teacher_availabilities, normalized, courses, classrooms, schedule,
          all_blocks, schedule_vars, classroom_vars, posted, status,
          sol_x, sol_y, solver_calls, pc, error,
          declared, invocations, response, other, cur>>

\* declared: the availabilities as the constructor received them;
\* invocations: calls of generate_schedule on this instance so far;
\* response: what the endpoint answered; other, cur: the second request of a
\* pair of concurrent requests and which of the two is being stepped
caller == <<declared, invocations, response, other, cur>>

\* ---------------------------------------------------------------- constants

\* self.days
Days == <<"Lunes", "Martes", "Miercoles", "Jueves", "Viernes">>

DaySet == {Days[i] : i \in 1..Len(Days)}

\* minutes of one atomic slot (range(start, end, 30), t // 30, start * 30)
SlotMinutes == 30

\* block_sizes = [intensity_slots] if intensity <= 4 else [6, 4]
SingleBlockMaxIntensity == 4

\* ... and the single-day constraint's own threshold
SingleDayMaxIntensity == 4

\* lunch hour, slots 24 and 25
ReservedSlots == {24, 25}

\* model.Add(sum(expr) <= 40)
MaxTeacherSlots == 40

\* ------------------------------------------------------------ pure helpers

RECURSIVE SortedSeq(_)
\* sorted(slot_idxs): the strictly increasing sequence of a finite set of integers
SortedSeq(S) ==
    IF S = {} THEN <<>>
    ELSE LET m == CHOOSE a \in S : \A b \in S : a <= b
         IN  <<m>> \o SortedSeq(S \ {m})

RECURSIVE ConcatAll(_)
\* concatenation of a sequence of sequences
ConcatAll(ss) ==
    IF ss = <<>> THEN <<>> ELSE Head(ss) \o ConcatAll(Tail(ss))

SeqRange(s) == {s[i] : i \in 1..Len(s)}

\* range(start, end, 30) followed by t // 30, for one range string
RangeSlots(r) ==
    LET start == r.sh * 60 + r.sm
        end   == r.eh * 60 + r.em
    IN  IF end <= start THEN {}
        ELSE {(start + SlotMinutes * k) \div SlotMinutes :
                 k \in 0..((end - start - 1) \div SlotMinutes)}

\* the slot set of a list of range strings, sorted
ParseDay(slots) ==
    SortedSeq(UNION {RangeSlots(slots[i]) : i \in 1..Len(slots)})

\* parse_availability: teacher -> day -> sorted slot indices
ParseAvailability(ta) ==
    [t \in DOMAIN ta |-> [d \in DOMAIN ta[t] |-> ParseDay(ta[t][d])]]

RECURSIVE ExtendBlock(_, _, _, _)
\* the inner loop of generate_possible_time_blocks, from position j with the
\* block built so far; <<>> when the loop ends without reaching block_len
ExtendBlock(available_slots, block_len, j, block) ==
    IF j > Len(available_slots) THEN <<>>
    ELSE IF block = <<>> \/ available_slots[j] = block[Len(block)] + 1
         THEN LET b2 == Append(block, available_slots[j])
              IN  IF Len(b2) = block_len THEN b2
                  ELSE ExtendBlock(available_slots, block_len, j + 1, b2)
         ELSE <<>>

RECURSIVE BlocksFrom(_, _, _)
\* the outer loop of generate_possible_time_blocks, from start position i
BlocksFrom(available_slots, block_len, i) ==
    IF i > Len(available_slots) THEN <<>>
    ELSE LET b == ExtendBlock(available_slots, block_len, i, <<>>)
         IN  (IF b = <<>> THEN <<>> ELSE <<b>>)
             \o BlocksFrom(available_slots, block_len, i + 1)

\* mutant: the scan ends at the first block it finds (return for break)
generate_possible_time_blocksFirstOnly(available_slots, block_len) ==
    LET b == BlocksFrom(available_slots, block_len, 1)
    IN  IF b = <<>> THEN <<>> ELSE <<b[1]>>

\* generate_possible_time_blocks
generate_possible_time_blocks(available_slots, block_len) ==
    BlocksFrom(available_slots, block_len, 1)

\* mutant: no partition, one block of the full duration whatever the intensity
BlockSizesWhole(info) ==
    <<info.intensity * 2>>

\* block_sizes of a course
BlockSizes(info) ==
    IF info.intensity <= SingleBlockMaxIntensity
    THEN <<info.intensity * 2>> ELSE <<6, 4>>

\* mutant: the capacity test is dropped
AulasCompatiblesTypeOnly(info, rooms) ==
    {rooms[i].id : i \in {j \in 1..Len(rooms) : rooms[j].type = info.room_type}}

\* aulas_compatibles of a course: ids of the rooms of matching type and capacity
AulasCompatibles(info, rooms) ==
    {rooms[i].id : i \in {j \in 1..Len(rooms) :
                            /\ rooms[j].type = info.room_type
                            /\ rooms[j].capacity >= info.students}}

\* mutant: the availability looked up is that of one fixed teacher of the
\* mapping, not of the course's teacher
AvailFixedTeacher(ta, teacher, day) ==
    LET one == CHOOSE t \in DOMAIN ta : TRUE
    IN  IF day \in DOMAIN ta[one] THEN ta[one][day] ELSE <<>>

\* self.teacher_availabilities.get(teacher, {}).get(day, [])
Avail(ta, teacher, day) ==
    IF teacher \in DOMAIN ta /\ day \in DOMAIN ta[teacher]
    THEN ta[teacher][day] ELSE <<>>

\* possible: the candidate blocks of a course on a day, all block sizes
Possible(ta, info, day) ==
    LET avail == Avail(ta, info.teacher, day)
        sizes == BlockSizes(info)
    IN  IF avail = <<>> THEN <<>>
        ELSE ConcatAll([i \in 1..Len(sizes) |->
                          generate_possible_time_blocks(avail, sizes[i])])

\* validate_teacher_availability on the raw range strings: hours only
TotalAvailableHours(availability) ==
    LET DayHours(slots) ==
            LET RECURSIVE H(_)
                H(i) == IF i > Len(slots) THEN 0
                        ELSE (slots[i].eh - slots[i].sh) + H(i + 1)
            IN  H(1)
        RECURSIVE W(_)
        W(i) == IF i > Len(Days) THEN 0
                ELSE (IF Days[i] \in DOMAIN availability
                      THEN DayHours(availability[Days[i]]) ELSE 0) + W(i + 1)
    IN  W(1)

TotalAssignedHours(cs, teacher) ==
    LET RECURSIVE A(_)
        A(i) == IF i > Len(cs) THEN 0
                ELSE (IF cs[i].teacher = teacher THEN cs[i].intensity ELSE 0)
                     + A(i + 1)
    IN  A(1)

\* mutant: the verdict of the comparison is dropped (no return False)
validate_teacher_availabilityAlwaysTrue(ta, cs) ==
    \A teacher \in DOMAIN ta :
        TotalAssignedHours(cs, teacher) >= 0

validate_teacher_availability(ta, cs) ==
    \A teacher \in DOMAIN ta :
        ~ (TotalAssignedHours(cs, teacher) > TotalAvailableHours(ta[teacher]))

\* ------------------------------------------------- variables of the CP model

CourseIds == {courses[i].id : i \in 1..Len(courses)}

CourseById(course_id) ==
    courses[CHOOSE i \in 1..Len(courses) : courses[i].id = course_id]

\* index of the first course without a compatible room, 0 when there is none
FirstIncompatible ==
    LET bad == {i \in 1..Len(courses) :
                   AulasCompatibles(courses[i], classrooms) = {}}
    IN  IF bad = {} THEN 0 ELSE CHOOSE i \in bad : \A j \in bad : i <= j

\* the courses whose variables the construction loop builds before it ends
BuiltCourses ==
    IF FirstIncompatible = 0 THEN 1..Len(courses)
    ELSE 1..(FirstIncompatible - 1)

\* all_blocks after the construction loop: (course, day) -> candidate blocks
BuildAllBlocks ==
    LET keys == {<<courses[i].id, d>> : i \in BuiltCourses, d \in DaySet}
        poss(k) == Possible(teacher_availabilities, CourseById(k[1]), k[2])
    IN  [k \in {q \in keys : poss(q) # <<>>} |-> poss(k)]

\* schedule_vars: one boolean per candidate, keyed (course, day, idx)
BuildScheduleVars(blocks) ==
    UNION {{<<k[1], k[2], idx>> : idx \in 1..Len(blocks[k])} : k \in DOMAIN blocks}

\* classroom_vars: one boolean per candidate and compatible room
BuildClassroomVars(blocks) ==
    UNION {{<<v[1], v[2], v[3], aula>> :
              aula \in AulasCompatibles(CourseById(v[1]), classrooms)} :
           v \in BuildScheduleVars(blocks)}

\* the block of a schedule variable
BlockOf(v) == all_blocks[<<v[1], v[2]>>][v[3]]

\* the schedule variables of one course, of one course on one day
VarsOfCourse(course_id) == {v \in schedule_vars : v[1] = course_id}

VarsOfDay(course_id, day) ==
    {v \in schedule_vars : v[1] = course_id /\ v[2] = day}

RECURSIVE SumLen(_)
\* sum of var * len(block) over the variables that are true
SumLen(S) ==
    IF S = {} THEN 0
    ELSE LET v == CHOOSE q \in S : TRUE
         IN  Len(BlockOf(v)) + SumLen(S \ {v})

\* ------------------------------------------------------------- constraints
\* x is the set of schedule variables that are true, y the set of classroom
\* variables that are true.

\* mutant: >= in place of ==
CoverageAtLeast(info, x) ==
    SumLen(x \cap VarsOfCourse(info.id)) >= info.intensity * 2

\* mutant: <= in place of ==
CoverageAtMost(info, x) ==
    SumLen(x \cap VarsOfCourse(info.id)) <= info.intensity * 2

\* 2) each course covers exactly intensity * 2 half hours
Coverage(info, x) ==
    SumLen(x \cap VarsOfCourse(info.id)) = info.intensity * 2

\* mutant: <= 2 in place of <= 1
OneBlockPerDayAtMostTwo(course_id, x) ==
    \A d \in DaySet :
        VarsOfDay(course_id, d) # {} =>
            Cardinality(x \cap VarsOfDay(course_id, d)) <= 2

\* 3) at most one block per day per course
OneBlockPerDay(course_id, x) ==
    \A d \in DaySet :
        VarsOfDay(course_id, d) # {} =>
            Cardinality(x \cap VarsOfDay(course_id, d)) <= 1

\* 4) courses of intensity <= 4 on one day only: a boolean b per day with
\*    candidates, b => sum >= 1, ~b => sum = 0, and sum of the b's = 1
SingleDay(info, x) ==
    info.intensity <= SingleDayMaxIntensity =>
        LET withvars == {d \in DaySet : VarsOfDay(info.id, d) # {}}
        IN  withvars # {} =>
              \E day_assigned \in SUBSET withvars :
                 /\ \A d \in withvars :
                       IF d \in day_assigned
                       THEN Cardinality(x \cap VarsOfDay(info.id, d)) >= 1
                       ELSE Cardinality(x \cap VarsOfDay(info.id, d)) = 0
                 /\ Cardinality(day_assigned) = 1

\* mutant: the slot map is built per course, not per teacher
TeacherNoOverlapPerCourse(x) ==
    \A i \in 1..Len(courses) :
        \A d \in DaySet :
            LET vars_on == x \cap VarsOfDay(courses[i].id, d)
            IN  \A slot \in UNION {SeqRange(BlockOf(v)) : v \in vars_on} :
                    Cardinality({v \in vars_on :
                                    slot \in SeqRange(BlockOf(v))}) <= 1

\* 5) no teacher in two blocks at once: per teacher, day and slot, the sum of
\*    the variables covering the slot is <= 1 (a slot no true variable covers
\*    sums to 0, so only the slots of the true variables are looked at)
TeacherNoOverlap(x) ==
    \A teacher \in DOMAIN teacher_availabilities :
        \A d \in DaySet :
            LET vars_on == {v \in x : /\ v[2] = d
                                      /\ CourseById(v[1]).teacher = teacher}
            IN  \A slot \in UNION {SeqRange(BlockOf(v)) : v \in vars_on} :
                    Cardinality({v \in vars_on :
                                    slot \in SeqRange(BlockOf(v))}) <= 1

\* mutant: only the first slot of a block is tested
LunchExclusionFirstSlot(x) ==
    \A v \in schedule_vars :
        (BlockOf(v)[1] \in ReservedSlots) => v \notin x

\* 6) lunch hour: a candidate holding slot 24 or 25 is fixed to 0
LunchExclusion(x) ==
    \A v \in schedule_vars :
        (SeqRange(BlockOf(v)) \cap ReservedSlots # {}) => v \notin x

\* the classroom variables of one candidate
RoomVarsOf(v) == {w \in classroom_vars : <<w[1], w[2], w[3]>> = v}

\* mutant: sum(vars_aula) <= var in place of ==
RoomLinkageAtMost(v, x, y) ==
    RoomVarsOf(v) # {} =>
        Cardinality(y \cap RoomVarsOf(v)) <= (IF v \in x THEN 1 ELSE 0)

\* (f) a chosen block is assigned exactly one room: sum(vars_aula) = var
RoomLinkage(v, x, y) ==
    RoomVarsOf(v) # {} =>
        Cardinality(y \cap RoomVarsOf(v)) = (IF v \in x THEN 1 ELSE 0)

\* mutant: the slot map of a room is built per course
RoomNoOverlapPerCourse(y) ==
    \A i \in 1..Len(classrooms) :
        \A d \in DaySet :
            \A c \in 1..Len(courses) :
                LET vars_on == {w \in y : /\ w[4] = classrooms[i].id
                                          /\ w[2] = d
                                          /\ w[1] = courses[c].id}
                IN  \A slot \in UNION {SeqRange(BlockOf(w)) : w \in vars_on} :
                        Cardinality({w \in vars_on :
                                        slot \in SeqRange(BlockOf(w))}) <= 1

\* (g) no overlap inside a room: per room, day and slot, <= 1
RoomNoOverlap(y) ==
    \A i \in 1..Len(classrooms) :
        \A d \in DaySet :
            LET vars_on == {w \in y : w[4] = classrooms[i].id /\ w[2] = d}
            IN  \A slot \in UNION {SeqRange(BlockOf(w)) : w \in vars_on} :
                    Cardinality({w \in vars_on :
                                    slot \in SeqRange(BlockOf(w))}) <= 1

\* mutant: the sum is taken per course, not per teacher
LoadCapPerCourse(x) ==
    \A i \in 1..Len(courses) :
        SumLen(x \cap VarsOfCourse(courses[i].id)) <= MaxTeacherSlots

\* R8) at most 20 h (40 slots) per teacher
LoadCap(x) ==
    \A docente \in {courses[i].teacher : i \in 1..Len(courses)} :
        SumLen({v \in x : CourseById(v[1]).teacher = docente}) <= MaxTeacherSlots

\* the constraint groups, in the order the code posts them
ConstraintGroups ==
    <<"coverage", "one_block_per_day", "single_day", "teacher_overlap",
      "lunch", "room_linkage", "room_overlap", "load_cap">>

\* a constraint binds the solver only once it has been posted
Posted(group, holds) == group \in posted => holds

\* ------------------------------------------------------------ the solver
\* CpSolver.Solve is an opaque search: when it answers OPTIMAL or FEASIBLE it
\* hands back one assignment of the booleans that satisfies every posted
\* constraint.  Solutions is the set of those assignments as pairs <<x, y>>;
\* it is enumerated course by course (a constraint over one course filters
\* that course's variables, a constraint across courses filters the union).

\* the assignments of one course's schedule variables that satisfy 2), 3), 4), 6)
XChoices(info) ==
    {t \in SUBSET VarsOfCourse(info.id) :
        /\ Posted("lunch", LunchExclusion(t))
        /\ Posted("one_block_per_day", OneBlockPerDay(info.id, t))
        /\ Posted("coverage", Coverage(info, t))
        /\ Posted("single_day", SingleDay(info, t))}

RECURSIVE RoomChoices(_, _)
\* the assignments of the classroom variables of the candidates vs that
\* satisfy (f), given the schedule variables t
RoomChoices(vs, t) ==
    IF vs = {} THEN {{}}
    ELSE LET v    == CHOOSE q \in vs : TRUE
             mine == {r \in SUBSET RoomVarsOf(v) :
                         Posted("room_linkage", RoomLinkage(v, t, r))}
             rest == RoomChoices(vs \ {v}, t)
         IN  UNION {{r \cup q : q \in rest} : r \in mine}

\* the assignments <<t, r>> of one course's variables that satisfy the
\* constraints over that course alone
CourseChoices(info) ==
    UNION {{<<t, r>> : r \in RoomChoices(VarsOfCourse(info.id), t)} :
           t \in XChoices(info)}

\* the assignments prev of the earlier courses extended by the choices of one
\* more course, kept when they satisfy the constraints across courses
ExtendWith(prev, choices) ==
    {s \in {<<p[1] \cup c[1], p[2] \cup c[2]>> : p \in prev, c \in choices} :
        /\ Posted("teacher_overlap", TeacherNoOverlap(s[1]))
        /\ Posted("load_cap", LoadCap(s[1]))
        /\ Posted("room_overlap", RoomNoOverlap(s[2]))}

RECURSIVE PartialSolutions(_)
\* the assignments of the variables of courses 1..n that satisfy every constraint
PartialSolutions(n) ==
    IF n = 0 THEN {<<{}, {}>>}
    ELSE ExtendWith(PartialSolutions(n - 1), CourseChoices(courses[n]))

Solutions == PartialSolutions(Len(courses))

\* ----------------------------------------------------------- extraction

\* the keys of schedule_vars in the order all_blocks.items() yields them
VarSeq ==
    LET ofDay(cid, d) ==
            IF <<cid, d>> \in DOMAIN all_blocks
            THEN [idx \in 1..Len(all_blocks[<<cid, d>>]) |-> <<cid, d, idx>>]
            ELSE <<>>
        ofCourse(cid) == ConcatAll([i \in 1..Len(Days) |-> ofDay(cid, Days[i])])
    IN  ConcatAll([i \in 1..Len(courses) |-> ofCourse(courses[i].id)])

\* index in classrooms of the room next(...) finds for a candidate, 0 when
\* the generator is exhausted (StopIteration)
AulaAsignada(v, y) ==
    LET hit == {i \in 1..Len(classrooms) :
                   <<v[1], v[2], v[3], classrooms[i].id>> \in classroom_vars \cap y}
    IN  IF hit = {} THEN 0 ELSE CHOOSE i \in hit : \A j \in hit : i <= j

\* mutant: the minutes are not written (always :00)
TimeframeHoursOnly(block) ==
    LET start == block[1]
        end   == block[Len(block)] + 1
    IN  [sh |-> (start * SlotMinutes) \div 60, sm |-> 0,
         eh |-> (end * SlotMinutes) \div 60,   em |-> 0]

\* mutant: the end of the block is its last slot, not the slot after it
TimeframeInclusiveEnd(block) ==
    LET start == block[1]
        end   == block[Len(block)]
    IN  [sh |-> (start * SlotMinutes) \div 60, sm |-> (start * SlotMinutes) % 60,
         eh |-> (end * SlotMinutes) \div 60,   em |-> (end * SlotMinutes) % 60]

\* f"{sh:02d}:{sm:02d}-{eh:02d}:{em:02d}" of a block
Timeframe(block) ==
    LET start == block[1]
        end   == block[Len(block)] + 1
    IN  [sh |-> (start * SlotMinutes) \div 60, sm |-> (start * SlotMinutes) % 60,
         eh |-> (end * SlotMinutes) \div 60,   em |-> (end * SlotMinutes) % 60]

\* the entry appended for a chosen candidate
Entry(v, y) ==
    [day       |-> v[2],
     hour      |-> Timeframe(BlockOf(v)),
     teacher   |-> CourseById(v[1]).teacher,
     classroom |-> classrooms[AulaAsignada(v, y)].id,
     semester  |-> CourseById(v[1]).semester]

\* self.schedule.setdefault(course_id, []).append(entry)
ScheduleAppend(sch, course_id, entry) ==
    IF course_id \in DOMAIN sch
    THEN [sch EXCEPT ![course_id] = Append(@, entry)]
    ELSE sch @@ (course_id :> <<entry>>)

RECURSIVE ExtractFrom(_, _, _, _)
\* the extraction loop over the candidates vs still to visit: the schedule
\* and whether the loop ran to its end
ExtractFrom(vs, sch, x, y) ==
    IF vs = <<>> THEN [schedule |-> sch, ok |-> TRUE]
    ELSE LET v == Head(vs)
         IN  IF v \notin x THEN ExtractFrom(Tail(vs), sch, x, y)
             ELSE IF AulaAsignada(v, y) = 0 THEN [schedule |-> sch, ok |-> FALSE]
             ELSE ExtractFrom(Tail(vs), ScheduleAppend(sch, v[1], Entry(v, y)), x, y)

\* ------------------------------------------------------------------ inputs

\* largest number of courses of a request in the general families
MaxCourses == 2

\* largest number of 4-hour courses of the single teacher of the load family
MaxLoadCourses == 6

Range(sh, sm, eh, em) == [sh |-> sh, sm |-> sm, eh |-> eh, em |-> em]

R0709 == Range(7, 0, 9, 0)
R0710 == Range(7, 0, 10, 0)
R0712 == Range(7, 0, 12, 0)
R0812 == Range(8, 0, 12, 0)
R1013 == Range(10, 0, 13, 0)
R1317 == Range(13, 0, 17, 0)
R1416 == Range(14, 0, 16, 0)
\* ranges with minutes, and ranges that do not end after they start
R0800_0830 == Range(8, 0, 8, 30)
R0830_0900 == Range(8, 30, 9, 0)
R0830_1000 == Range(8, 30, 10, 0)
R0909 == Range(9, 0, 9, 0)
R0930_0900 == Range(9, 30, 9, 0)
R1008 == Range(10, 0, 8, 0)
\* ranges that start or end off the half-hour grid
R0800_0845 == Range(8, 0, 8, 45)
R0815_0900 == Range(8, 15, 9, 0)

\* a mapping from a set of <<key, value>> pairs
MapOf(pairs) ==
    [k \in {p[1] : p \in pairs} |-> (CHOOSE p \in pairs : p[1] = k)[2]]

CourseNames == <<"Algebra", "Fisica", "Quimica", "Dibujo", "Logica", "Etica", "Musica">>

Course(i, teacher, intensity, room_type, students) ==
    [id |-> CourseNames[i], teacher |-> teacher, intensity |-> intensity,
     room_type |-> room_type, students |-> students, semester |-> "1"]

Room(id, type, capacity) == [id |-> id, type |-> type, capacity |-> capacity]

RoomsOneAula == <<Room("A1", "Aula", 30)>>
RoomsTwoAulas == <<Room("A1", "Aula", 30), Room("A2", "Aula", 50)>>
RoomsAulaLab == <<Room("A1", "Aula", 30), Room("L1", "Lab", 30)>>

\* availability of T1 (Monday always, Tuesday optional) and of T2 (absent
\* from the mapping, Monday, or a Saturday the generator never looks at)
AvailT1 ==
    {MapOf({<<"Lunes", l>>} \cup m) :
        l \in {<<R0709>>, <<R0709, R1013>>, <<R0710>>, <<R0710, R1416>>},
        m \in {{}, {<<"Martes", <<R0709>>>>}, {<<"Martes", <<R0710>>>>}}}

AvailT2 ==
    {{}, {<<"T2", MapOf({<<"Lunes", <<R0709>>>>})>>},
         {<<"T2", MapOf({<<"Lunes", <<R1013>>>>})>>},
         {<<"T2", MapOf({<<"Sabado", <<R0709>>>>})>>}}

Availabilities == {MapOf({<<"T1", a>>} \cup b) : a \in AvailT1, b \in AvailT2}

\* timing family: every course fits a room, availabilities and durations vary
TimingCourses(i) ==
    {Course(i, t, h, "Aula", 20) : t \in {"T1", "T2"}, h \in {0, 2, 5}}

\* room family: fixed availability, room requirements vary
RoomCourses(i) ==
    {Course(i, t, h, rq[1], rq[2]) :
        t \in {"T1", "T2"}, h \in {2, 5},
        rq \in {<<"Aula", 20>>, <<"Aula", 40>>, <<"Lab", 20>>}}

\* the courses the i-th course of a request of a family is drawn from
CourseOptions(family, i) ==
    IF family = "timing" THEN TimingCourses(i) ELSE RoomCourses(i)

\* sequences of 1..MaxCourses courses of a family
CourseSeqs(family) ==
    UNION {{cs \in [1..n -> UNION {CourseOptions(family, i) : i \in 1..n}] :
               \A i \in 1..n : cs[i] \in CourseOptions(family, i)} :
           n \in 1..MaxCourses}

RoomAvailability ==
    MapOf({<<"T1", MapOf({<<"Lunes", <<R0710>>>>, <<"Martes", <<R0709>>>>})>>,
           <<"T2", MapOf({<<"Lunes", <<R0709>>>>})>>})

\* load family: one teacher, n courses of 4 hours each, 08:00-12:00 free
\* every weekday, and Monday afternoon too from the sixth course on
LoadAvailability(n) ==
    MapOf({<<"T1", MapOf({<<"Lunes", IF n > Len(Days) THEN <<R0812, R1317>>
                                      ELSE <<R0812>>>>,
                          <<"Martes", <<R0812>>>>, <<"Miercoles", <<R0812>>>>,
                          <<"Jueves", <<R0812>>>>, <<"Viernes", <<R0812>>>>})>>})

LoadCourses(n) == [i \in 1..n |-> Course(i, "T1", 4, "Aula", 20)]

\* range family: one teacher, one room, what the teacher declares on Monday
\* varies: a whole morning, two ranges that overlap, ranges that start or
\* end on a half hour or off the grid, ranges that end at or before their
\* start
RangeAvailabilities ==
    {MapOf({<<"T1", MapOf({<<"Lunes", l>>})>>}) :
        l \in {<<R0812>>, <<R0709, R0710>>, <<R0830_1000>>,
               <<R0800_0830, R0830_0900>>, <<R0709, R1008>>, <<R0709, R0909>>,
               <<R0930_0900>>, <<R0800_0845>>, <<R0815_0900>>}}

RangeCourses ==
    UNION {[1..n -> {0, 1, 2, 4}] : n \in 1..MaxCourses}

\* partition family: a long Monday morning and a short Tuesday, one course
\* at the threshold of the partition policy or just above it
PartitionAvailability ==
    MapOf({<<"T1", MapOf({<<"Lunes", <<R0712>>>>, <<"Martes", <<R0709>>>>})>>})

Inputs ==
    {[ta |-> a, cs |-> c, rooms |-> r] :
        a \in Availabilities, c \in CourseSeqs("timing"),
        r \in {RoomsTwoAulas, RoomsAulaLab}}
    \cup
    {[ta |-> RoomAvailability, cs |-> c, rooms |-> r] :
        c \in CourseSeqs("room"),
        r \in {RoomsOneAula, RoomsTwoAulas, RoomsAulaLab}}
    \cup
    {[ta |-> LoadAvailability(n), cs |-> LoadCourses(n), rooms |-> RoomsOneAula] :
        n \in (MaxLoadCourses - 1)..MaxLoadCourses}
    \cup
    {[ta |-> a,
      cs |-> [i \in DOMAIN hs |-> Course(i, "T1", hs[i], "Aula", 20)],
      rooms |-> RoomsOneAula] :
        a \in RangeAvailabilities, hs \in RangeCourses}
    \cup
    {[ta |-> PartitionAvailability,
      cs |-> <<Course(1, "T1", h, "Aula", 20)>>,
      rooms |-> RoomsOneAula] : h \in {4, 5}}

\* ------------------------------------------------------------------ actions

OkStatuses == {"OPTIMAL", "FEASIBLE"}

\* no answer of the endpoint yet
NoResponse == [kind |-> "none"]

\* ScheduleGenerator(...): the fields of an instance after __init__, with the
\* locals of a generate_schedule that has not started
Constructed(inp) ==
    [teacher_availabilities |-> inp.ta, normalized |-> FALSE,
     courses |-> inp.cs, classrooms |-> inp.rooms, schedule |-> <<>>,
     all_blocks |-> <<>>, schedule_vars |-> {}, classroom_vars |-> {},
     posted |-> {}, status |-> "NONE", sol_x |-> {}, sol_y |-> {},
     solver_calls |-> 0, pc |-> "start", error |-> "",
     declared |-> inp.ta, invocations |-> 1, response |-> NoResponse]

\* the request being stepped, as a record
Self ==
    [teacher_availabilities |-> teacher_availabilities,
     normalized |-> normalized,
     courses |-> courses,
     classrooms |-> classrooms,
     schedule |-> schedule,
     all_blocks |-> all_blocks,
     schedule_vars |-> schedule_vars,
     classroom_vars |-> classroom_vars,
     posted |-> posted,
     status |-> status,
     sol_x |-> sol_x,
     sol_y |-> sol_y,
     solver_calls |-> solver_calls,
     pc |-> pc,
     error |-> error,
     declared |-> declared,
     invocations |-> invocations,
     response |-> response]

\* the request being stepped is in the state s
Holds(s) ==
    /\ teacher_availabilities = s.teacher_availabilities
    /\ normalized = s.normalized
    /\ courses = s.courses
    /\ classrooms = s.classrooms
    /\ schedule = s.schedule
    /\ all_blocks = s.all_blocks
    /\ schedule_vars = s.schedule_vars
    /\ classroom_vars = s.classroom_vars
    /\ posted = s.posted
    /\ status = s.status
    /\ sol_x = s.sol_x
    /\ sol_y = s.sol_y
    /\ solver_calls = s.solver_calls
    /\ pc = s.pc
    /\ error = s.error
    /\ declared = s.declared
    /\ invocations = s.invocations
    /\ response = s.response

\* one request, alone
Init ==
    /\ \E inp \in Inputs : Holds(Constructed(inp))
    /\ other = <<>>
    /\ cur = 1

\* generate_schedule, the pre-check fails: return
PreCheckFails ==
    /\ pc = "start"
    /\ ~ validate_teacher_availability(teacher_availabilities, courses)
    /\ pc' = "returned"
    /\ UNCHANGED <<teacher_availabilities, normalized, courses, classrooms,
                   schedule, all_blocks, schedule_vars, classroom_vars, posted,
                   status, sol_x, sol_y, solver_calls, error>>
    /\ UNCHANGED caller

\* generate_schedule, the pre-check passes: parse_availability
Normalize ==
    /\ pc = "start"
    /\ validate_teacher_availability(teacher_availabilities, courses)
    /\ teacher_availabilities' = ParseAvailability(teacher_availabilities)
    /\ normalized' = TRUE
    /\ pc' = "parsed"
    /\ UNCHANGED <<courses, classrooms, schedule, all_blocks, schedule_vars,
                   classroom_vars, posted, status, sol_x, sol_y, solver_calls,
                   error>>
    /\ UNCHANGED caller

\* the construction loop: blocks and variables course by course, ValueError
\* at the first course without a compatible room
BuildVariables ==
    /\ pc = "parsed"
    /\ all_blocks' = BuildAllBlocks
    /\ schedule_vars' = BuildScheduleVars(BuildAllBlocks)
    /\ classroom_vars' = BuildClassroomVars(BuildAllBlocks)
    /\ IF FirstIncompatible = 0
       THEN pc' = "built" /\ error' = error
       ELSE pc' = "raised" /\ error' = courses[FirstIncompatible].id
    /\ UNCHANGED <<teacher_availabilities, normalized, courses, classrooms,
                   schedule, posted, status, sol_x, sol_y, solver_calls>>
    /\ UNCHANGED caller

\* mutant: the load cap is not posted
PostConstraintsNoLoadCap ==
    /\ pc = "built"
    /\ posted' = SeqRange(ConstraintGroups) \ {"load_cap"}
    /\ pc' = "posted"
    /\ UNCHANGED <<teacher_availabilities, normalized, courses, classrooms,
                   schedule, all_blocks, schedule_vars, classroom_vars, status,
                   sol_x, sol_y, solver_calls, error>>
    /\ UNCHANGED caller

\* the eight constraint groups are posted
PostConstraints ==
    /\ pc = "built"
    /\ posted' = SeqRange(ConstraintGroups)
    /\ pc' = "posted"
    /\ UNCHANGED <<teacher_availabilities, normalized, courses, classrooms,
                   schedule, all_blocks, schedule_vars, classroom_vars, status,
                   sol_x, sol_y, solver_calls, error>>
    /\ UNCHANGED caller

\* status = solver.Solve(model)
Solve ==
    /\ pc = "posted"
    /\ solver_calls' = solver_calls + 1
    /\ pc' = "solved"
    /\ LET sols == Solutions
       IN  \/ \E s \in sols :
                 /\ status' \in OkStatuses
                 /\ sol_x' = s[1]
                 /\ sol_y' = s[2]
           \/ /\ sols = {}
              /\ status' = "INFEASIBLE"
              /\ UNCHANGED <<sol_x, sol_y>>
           \/ /\ status' = "UNKNOWN"
              /\ UNCHANGED <<sol_x, sol_y>>
    /\ UNCHANGED <<teacher_availabilities, normalized, courses, classrooms,
                   schedule, all_blocks, schedule_vars, classroom_vars, posted,
                   error>>
    /\ UNCHANGED caller

\* mutant: without a solution the first candidate of every course and day
\* is placed in its first compatible room (a best-effort schedule)
NoSolutionBestEffort ==
    /\ pc = "solved"
    /\ status \notin OkStatuses
    /\ schedule' = ExtractFrom(VarSeq, schedule,
                               {v \in schedule_vars : v[3] = 1},
                               classroom_vars).schedule
    /\ pc' = "returned"
    /\ UNCHANGED <<teacher_availabilities, normalized, courses, classrooms,
                   all_blocks, schedule_vars, classroom_vars, posted,
                   status, sol_x, sol_y, solver_calls, error>>
    /\ UNCHANGED caller

\* status not in (OPTIMAL, FEASIBLE): return
NoSolution ==
    /\ pc = "solved"
    /\ status \notin OkStatuses
    /\ pc' = "returned"
    /\ UNCHANGED <<teacher_availabilities, normalized, courses, classrooms,
                   schedule, all_blocks, schedule_vars, classroom_vars, posted,
                   status, sol_x, sol_y, solver_calls, error>>
    /\ UNCHANGED caller

\* the extraction loop
Extract ==
    /\ pc = "solved"
    /\ status \in OkStatuses
    /\ LET res == ExtractFrom(VarSeq, schedule, sol_x, sol_y)
       IN  /\ schedule' = res.schedule
           /\ pc' = IF res.ok THEN "returned" ELSE "crashed"
    /\ UNCHANGED <<teacher_availabilities, normalized, courses, classrooms,
                   all_blocks, schedule_vars, classroom_vars, posted, status,
                   sol_x, sol_y, solver_calls, error>>
    /\ UNCHANGED caller

\* self.days.index(day)
DayIndex(day) == CHOOSE i \in 1..Len(Days) : Days[i] = day

\* mutant: the key is x['hour'] alone
KeyLeqHourOnly(a, b) ==
    LET ka == <<a.hour.sh, a.hour.sm, a.hour.eh, a.hour.em>>
        kb == <<b.hour.sh, b.hour.sm, b.hour.eh, b.hour.em>>
        diff == {i \in 1..4 : ka[i] # kb[i]}
    IN  IF diff = {} THEN TRUE
        ELSE LET i == CHOOSE j \in diff : \A k \in diff : j <= k
             IN  ka[i] < kb[i]

\* the sort key (self.days.index(x['day']), x['hour']) of one entry is not
\* after that of another: tuples compare position by position, and two
\* zero-padded 'HH:MM-HH:MM' strings compare as their four numbers do
KeyLeq(a, b) ==
    LET ka == <<DayIndex(a.day), a.hour.sh, a.hour.sm, a.hour.eh, a.hour.em>>
        kb == <<DayIndex(b.day), b.hour.sh, b.hour.sm, b.hour.eh, b.hour.em>>
        diff == {i \in 1..5 : ka[i] # kb[i]}
    IN  IF diff = {} THEN TRUE
        ELSE LET i == CHOOSE j \in diff : \A k \in diff : j <= k
             IN  ka[i] < kb[i]

RECURSIVE SortedSlots(_)
\* sorted(slots, key=...): stable, an entry goes after the entries before it
\* in the list whose key is not after its own
SortedSlots(slots) ==
    IF slots = <<>> THEN <<>>
    ELSE LET n    == Len(slots)
             done == SortedSlots(SubSeq(slots, 1, n - 1))
             e    == slots[n]
             k    == Cardinality({i \in 1..Len(done) : KeyLeq(done[i], e)})
         IN  SubSeq(done, 1, k) \o <<e>> \o SubSeq(done, k + 1, Len(done))

\* get_schedule_json
get_schedule_json(sch) == [c \in DOMAIN sch |-> SortedSlots(sch[c])]

\* what the caller of generate_schedule gets from a request s: the value
\* returned (None on every return and at the end of the body) or the
\* exception raised
OutcomeOf(s) ==
    IF s.pc = "returned" THEN [kind |-> "return", value |-> "None"]
    ELSE IF s.pc = "raised"
         THEN [kind |-> "raise", exception |-> "ValueError", course |-> s.error]
    ELSE IF s.pc = "crashed"
         THEN [kind |-> "raise",
               exception |-> IF s.error = "" THEN "StopIteration" ELSE s.error]
    ELSE [kind |-> "running"]

Outcome == OutcomeOf([pc |-> pc, error |-> error])

\* the endpoint after generate_schedule: {"horario": schedule_json}, or the
\* exception going up to the framework
Respond ==
    /\ pc \in {"returned", "raised", "crashed"}
    /\ response = NoResponse
    /\ invocations = 1
    /\ response' = IF pc = "returned"
                   THEN [kind |-> "body", horario |-> get_schedule_json(schedule)]
                   ELSE [kind |-> "exception", exception |-> Outcome.exception]
    /\ UNCHANGED <<teacher_availabilities, normalized, courses, classrooms,
                   schedule, all_blocks, schedule_vars, classroom_vars, posted,
                   status, sol_x, sol_y, solver_calls, pc, error,
                   declared, invocations, other, cur>>

Next ==
    \/ PreCheckFails
    \/ Normalize
    \/ BuildVariables
    \/ PostConstraints
    \/ Solve
    \/ NoSolution
    \/ Extract
    \/ Respond

Spec == Init /\ [][Next]_vars

\* ------------------------------------- the constraint model of any request

\* parse_availability, whatever the pre-check said
ParseUnchecked ==
    /\ pc = "start"
    /\ teacher_availabilities' = ParseAvailability(teacher_availabilities)
    /\ normalized' = TRUE
    /\ pc' = "parsed"
    /\ UNCHANGED <<courses, classrooms, schedule, all_blocks, schedule_vars,
                   classroom_vars, posted, status, sol_x, sol_y, solver_calls,
                   error>>
    /\ UNCHANGED caller

\* the model is built, posted and solved for every request, also for those
\* the pre-check turns away
NextModel ==
    \/ ParseUnchecked
    \/ BuildVariables
    \/ PostConstraints
    \/ Solve
    \/ NoSolution
    \/ Extract

SpecModel == Init /\ [][NextModel]_vars

\* -------------------------------------- a second call on the same instance

\* calls of generate_schedule on one instance
MaxInvocations == 2

\* the orders in which a mapping can yield the teachers of a set
TeacherOrders(S) ==
    {o \in [1..Cardinality(S) -> S] : \A t \in S : \E i \in DOMAIN o : o[i] = t}

RECURSIVE ValidateParsed(_, _, _, _)
\* validate_teacher_availability over availabilities parse_availability has
\* already replaced by lists of slot numbers, teacher by teacher from
\* position i of the order: slot.split fails on the first number of a weekday
\* list, a teacher without any counts 0 hours
ValidateParsed(ta, cs, order, i) ==
    IF i > Len(order) THEN "True"
    ELSE LET teacher == order[i]
         IN  IF \E d \in DOMAIN ta[teacher] \cap DaySet : ta[teacher][d] # <<>>
             THEN "AttributeError"
             ELSE IF TotalAssignedHours(cs, teacher) > 0 THEN "False"
             ELSE ValidateParsed(ta, cs, order, i + 1)

\* parse_availability over such availabilities: slot.split fails on the first
\* number of any list, of any day
ParseParsedFails(ta) ==
    \E t \in DOMAIN ta : \E d \in DOMAIN ta[t] : ta[t][d] # <<>>

\* generate_schedule is called again on an instance whose call has returned:
\* the locals are new, the attributes are what the first call left
Reinvoke ==
    /\ pc = "returned"
    /\ response = NoResponse
    /\ invocations < MaxInvocations
    /\ invocations' = invocations + 1
    /\ pc' = IF normalized THEN "restart" ELSE "start"
    /\ all_blocks' = <<>>
    /\ schedule_vars' = {}
    /\ classroom_vars' = {}
    /\ posted' = {}
    /\ status' = "NONE"
    /\ sol_x' = {}
    /\ sol_y' = {}
    /\ solver_calls' = 0
    /\ UNCHANGED <<teacher_availabilities, normalized, courses, classrooms,
                   schedule, error, declared, response, other, cur>>

\* the pre-check and parse_availability of a call that finds the
\* availabilities already parsed
PreCheckAgain ==
    /\ pc = "restart"
    /\ \E order \in TeacherOrders(DOMAIN teacher_availabilities) :
          LET v == ValidateParsed(teacher_availabilities, courses, order, 1)
          IN  IF v = "AttributeError"
                 \/ (v = "True" /\ ParseParsedFails(teacher_availabilities))
              THEN pc' = "crashed" /\ error' = "AttributeError"
              ELSE IF v = "False"
              THEN pc' = "returned" /\ error' = error
              ELSE pc' = "parsed" /\ error' = error
    /\ UNCHANGED <<teacher_availabilities, normalized, courses, classrooms,
                   schedule, all_blocks, schedule_vars, classroom_vars, posted,
                   status, sol_x, sol_y, solver_calls>>
    /\ UNCHANGED caller

NextReuse == Next \/ Reinvoke \/ PreCheckAgain

SpecReuse == Init /\ [][NextReuse]_vars

\* ------------------------------------------------- two concurrent requests

\* the requests of a pair: one rejected by the pre-check, one without
\* solution, three with one (several blocks, several rooms, a single block)
PairInputs ==
    {[ta |-> MapOf({<<"T1", MapOf({<<"Lunes", l[1]>>})>>}),
      cs |-> [i \in DOMAIN l[2] |-> Course(i, "T1", l[2][i], "Aula", 20)],
      rooms |-> l[3]] :
        l \in {<<<<R0709>>, <<4>>, RoomsOneAula>>,
               <<<<R0709, R0710>>, <<2, 2>>, RoomsOneAula>>,
               <<<<R0709, R0710>>, <<2>>, RoomsOneAula>>,
               <<<<R0709>>, <<2>>, RoomsTwoAulas>>,
               <<<<R0812>>, <<4>>, RoomsOneAula>>}}

\* mutant: schedule is one dict shared by the instances (a class attribute)
ScheduleOfResumedShared(own, last) == last

\* self.schedule of the request that is resumed: the dict its own __init__
\* made, whatever the request stepped before it wrote to its own
ScheduleOfResumed(own, last) == own

\* the scheduler leaves the request being stepped and resumes the other one,
\* which finds its instance and its locals as it left them
Switch ==
    /\ other # <<>>
    /\ teacher_availabilities' = other.teacher_availabilities
    /\ normalized' = other.normalized
    /\ courses' = other.courses
    /\ classrooms' = other.classrooms
    /\ all_blocks' = other.all_blocks
    /\ schedule_vars' = other.schedule_vars
    /\ classroom_vars' = other.classroom_vars
    /\ posted' = other.posted
    /\ status' = other.status
    /\ sol_x' = other.sol_x
    /\ sol_y' = other.sol_y
    /\ solver_calls' = other.solver_calls
    /\ pc' = other.pc
    /\ error' = other.error
    /\ declared' = other.declared
    /\ invocations' = other.invocations
    /\ response' = other.response
    /\ schedule' = ScheduleOfResumed(other.schedule, schedule)
    /\ other' = Self
    /\ cur' = 3 - cur

\* two requests, each on the instance the endpoint made for it
InitPair ==
    /\ \E a \in PairInputs, b \in PairInputs :
          /\ Holds(Constructed(a))
          /\ other = Constructed(b)
    /\ cur = 1

NextPair == Next \/ Switch

SpecConcurrent == InitPair /\ [][NextPair]_vars

\* ------------------------------------------------------ reading a schedule

\* generate_schedule has returned after a solver verdict of OPTIMAL or FEASIBLE
Produced == pc = "returned" /\ status \in OkStatuses

\* generate_schedule is over: it returned, raised ValueError or StopIteration
Finished == pc \in {"returned", "raised", "crashed"}

\* the placements of the schedule, each named by its course and its position
Placements ==
    UNION {{<<c, j>> : j \in 1..Len(schedule[c])} : c \in DOMAIN schedule}

PlacementsOf(course_id) == {p \in Placements : p[1] = course_id}

EntryOf(p) == schedule[p[1]][p[2]]

\* the 30-minute slots a placement covers, read back from its 'HH:MM-HH:MM'
SlotsOf(p) == RangeSlots(EntryOf(p).hour)

RECURSIVE TotalSlots(_)
\* the number of slots of a set of placements, each counted with its length
TotalSlots(ps) ==
    IF ps = {} THEN 0
    ELSE LET p == CHOOSE q \in ps : TRUE
         IN  Cardinality(SlotsOf(p)) + TotalSlots(ps \ {p})

DaysUsed(course_id) == {EntryOf(p).day : p \in PlacementsOf(course_id)}

\* a room fits a course: same type, capacity at least the students
Fits(room, info) == room.type = info.room_type /\ room.capacity >= info.students

RoomById(id) == classrooms[CHOOSE i \in 1..Len(classrooms) : classrooms[i].id = id]

NoRoomFits(info) == \A i \in 1..Len(classrooms) : ~ Fits(classrooms[i], info)

AllTeachers ==
    DOMAIN teacher_availabilities \cup {courses[i].teacher : i \in 1..Len(courses)}

\* the slots of a day, 00:00 to 24:00
AllSlots == 0..47

\* the slots some placement covers (any other slot is covered by none)
CoveredSlots == UNION {SlotsOf(p) : p \in Placements}

\* ------------------------------------------------------------------ claims

\* C1 (as amended): in every produced schedule the placements of every course
\* add up to intensity * 2 slots exactly, and every course of intensity >= 1
\* has at least one placement.
C1_CoverageExact ==
    Produced =>
        \A i \in 1..Len(courses) :
            /\ TotalSlots(PlacementsOf(courses[i].id)) = courses[i].intensity * 2
            /\ courses[i].intensity >= 1 => PlacementsOf(courses[i].id) # {}

\* C1 as stated: the sum is exact and no course is left without placements.
C1_Original ==
    Produced =>
        \A i \in 1..Len(courses) :
            /\ TotalSlots(PlacementsOf(courses[i].id)) = courses[i].intensity * 2
            /\ PlacementsOf(courses[i].id) # {}

\* C1 witness: a produced schedule in which a 5-hour course is split over two
\* days, next to nothing else than its 10 slots.
C1_Witness ==
    /\ Produced
    /\ \E i \in 1..Len(courses) :
          /\ courses[i].intensity = 5
          /\ Cardinality(PlacementsOf(courses[i].id)) = 2
          /\ TotalSlots(PlacementsOf(courses[i].id)) = 10

\* C2: in every produced schedule, for every teacher, day and slot, at most
\* one placement of that teacher's courses covers the slot on that day (a
\* slot no placement covers is covered by at most one).
C2_TeacherNoOverlap ==
    Produced =>
        \A t \in AllTeachers, d \in DaySet, slot \in CoveredSlots :
            Cardinality({p \in Placements :
                            /\ CourseById(p[1]).teacher = t
                            /\ EntryOf(p).day = d
                            /\ slot \in SlotsOf(p)}) <= 1

\* C2 witness: two courses of one teacher are placed on the same day.
C2_Witness ==
    /\ Produced
    /\ \E p, q \in Placements :
          /\ p[1] # q[1]
          /\ CourseById(p[1]).teacher = CourseById(q[1]).teacher
          /\ EntryOf(p).day = EntryOf(q).day

\* C3: in every produced schedule, for every room, day and slot, at most one
\* placement is assigned to the room and covers the slot on that day (a slot
\* no placement covers is covered by at most one).
C3_RoomNoOverlap ==
    Produced =>
        \A i \in 1..Len(classrooms), d \in DaySet, slot \in CoveredSlots :
            Cardinality({p \in Placements :
                            /\ EntryOf(p).classroom = classrooms[i].id
                            /\ EntryOf(p).day = d
                            /\ slot \in SlotsOf(p)}) <= 1

\* C3 witness: two courses of different teachers share a room on one day.
C3_Witness ==
    /\ Produced
    /\ \E p, q \in Placements :
          /\ CourseById(p[1]).teacher # CourseById(q[1]).teacher
          /\ EntryOf(p).classroom = EntryOf(q).classroom
          /\ EntryOf(p).day = EntryOf(q).day

\* C4: once the solver has answered OPTIMAL or FEASIBLE, every candidate has
\* as many true room indicators as its block indicator (one when selected,
\* none otherwise), every true room indicator is a variable of the model for
\* a room that fits the course, and so does every room written in the schedule.
C4_RoomLinkage ==
    status \in OkStatuses =>
        /\ sol_x \subseteq schedule_vars
        /\ sol_y \subseteq classroom_vars
        /\ \A v \in schedule_vars :
              Cardinality({w \in sol_y : <<w[1], w[2], w[3]>> = v})
                 = (IF v \in sol_x THEN 1 ELSE 0)
        /\ \A w \in sol_y : Fits(RoomById(w[4]), CourseById(w[1]))
        /\ \A p \in Placements :
              Fits(RoomById(EntryOf(p).classroom), CourseById(p[1]))

\* C4 witness: the solver selected one candidate of a course and left another
\* one out, and the course fits two rooms.
C4_Witness ==
    /\ pc = "solved"
    /\ status \in OkStatuses
    /\ \E v \in sol_x, u \in schedule_vars \ sol_x :
          /\ v[1] = u[1]
          /\ Cardinality({i \in 1..Len(classrooms) :
                             Fits(classrooms[i], CourseById(v[1]))}) = 2

\* C5: no placement of a produced schedule covers slot 24 or 25, and no
\* candidate holding one of them is selected.
C5_NoReservedSlot ==
    status \in OkStatuses =>
        /\ \A v \in sol_x : SeqRange(BlockOf(v)) \cap {24, 25} = {}
        /\ \A p \in Placements : SlotsOf(p) \cap {24, 25} = {}

\* C5 witness: a course is placed on a day on which one of its candidates
\* holds a reserved slot.
C5_Witness ==
    /\ Produced
    /\ \E p \in Placements :
          \E v \in schedule_vars :
              /\ v[1] = p[1]
              /\ v[2] = EntryOf(p).day
              /\ SeqRange(BlockOf(v)) \cap {24, 25} # {}

\* C6: every placement of a produced schedule is on one of the five weekdays
\* and each of its slots is in the normalized slot set of the course's
\* teacher for that day.
C6_WithinAvailability ==
    Produced =>
        \A p \in Placements :
            LET e == EntryOf(p)
                t == CourseById(p[1]).teacher
            IN  /\ e.day \in {"Lunes", "Martes", "Miercoles", "Jueves", "Viernes"}
                /\ e.teacher = t
                /\ t \in DOMAIN teacher_availabilities
                /\ e.day \in DOMAIN teacher_availabilities[t]
                /\ SlotsOf(p) \subseteq SeqRange(teacher_availabilities[t][e.day])

\* C6 witness: a placement on a day whose availability has a hole (two slots
\* of the day are free with a slot between them that is not).
C6_Witness ==
    /\ Produced
    /\ \E p \in Placements :
          LET free == SeqRange(teacher_availabilities[EntryOf(p).teacher][EntryOf(p).day])
          IN  \E a, b \in free : \E c \in AllSlots \ free : a < c /\ c < b

\* C7 (as amended): in every produced schedule a course of intensity 1 to 4
\* has its placements on exactly one day.
C7_SingleDay ==
    Produced =>
        \A i \in 1..Len(courses) :
            (courses[i].intensity >= 1 /\ courses[i].intensity <= 4) =>
                Cardinality(DaysUsed(courses[i].id)) = 1

\* C7 as stated: every course of intensity at most 4 uses exactly one day,
\* never zero.
C7_Original ==
    Produced =>
        \A i \in 1..Len(courses) :
            courses[i].intensity <= 4 =>
                Cardinality(DaysUsed(courses[i].id)) = 1

\* C7 witness: a course of intensity at most 4 with candidates on two days
\* is placed.
C7_Witness ==
    /\ Produced
    /\ \E i \in 1..Len(courses) :
          /\ courses[i].intensity >= 1 /\ courses[i].intensity <= 4
          /\ Cardinality({v[2] : v \in VarsOfCourse(courses[i].id)}) >= 2
          /\ PlacementsOf(courses[i].id) # {}

\* C8: in every produced schedule a course has at most one placement per day,
\* and at most one candidate per (course, day) is selected.
C8_OneBlockPerDay ==
    status \in OkStatuses =>
        \A i \in 1..Len(courses), d \in DaySet :
            /\ Cardinality({p \in PlacementsOf(courses[i].id) :
                               EntryOf(p).day = d}) <= 1
            /\ Cardinality({v \in sol_x : v[1] = courses[i].id /\ v[2] = d}) <= 1

\* C8 witness: a course is placed on a day on which two of its candidates
\* do not overlap.
C8_Witness ==
    /\ Produced
    /\ \E p \in Placements :
          \E u, v \in VarsOfDay(p[1], EntryOf(p).day) :
              SeqRange(BlockOf(u)) \cap SeqRange(BlockOf(v)) = {}

\* C9: in every produced schedule the placements of the courses of one
\* teacher add up to at most 40 slots.
C9_LoadCap ==
    Produced =>
        \A t \in AllTeachers :
            TotalSlots({p \in Placements : CourseById(p[1]).teacher = t}) <= 40

\* C9 witness: a teacher is scheduled for exactly 40 slots.
C9_Witness ==
    /\ Produced
    /\ \E t \in AllTeachers :
          TotalSlots({p \in Placements : CourseById(p[1]).teacher = t}) = 40

\* C10 (as amended): when some course fits no room, the solver is never
\* invoked; if the pre-check passes, generate_schedule ends with the
\* ValueError that names the first such course of the mapping, and if the
\* pre-check fails it returns without an error.
C10_NoRoomError ==
    (\E i \in 1..Len(courses) : NoRoomFits(courses[i])) =>
        LET first == CHOOSE i \in 1..Len(courses) :
                        /\ NoRoomFits(courses[i])
                        /\ \A j \in 1..(i - 1) : ~ NoRoomFits(courses[j])
        IN  /\ solver_calls = 0
            /\ status = "NONE"
            /\ pc \in {"start", "parsed", "raised", "returned"}
            /\ pc = "raised" => normalized /\ error = courses[first].id
            /\ pc = "returned" => ~ normalized /\ error = ""

\* C10 as stated: whenever a course fits no room the request ends with the
\* error naming that course, whatever else is wrong with the input and
\* wherever the course stands in the mapping.
C10_Original ==
    \A i \in 1..Len(courses) :
        (NoRoomFits(courses[i]) /\ Finished) =>
            /\ pc = "raised"
            /\ error = courses[i].id
            /\ solver_calls = 0

\* C10 witness: the error names the second course of the mapping, the first
\* one fitting a room.
C10_Witness ==
    /\ pc = "raised"
    /\ Len(courses) >= 2
    /\ ~ NoRoomFits(courses[1])
    /\ NoRoomFits(courses[2])
    /\ error = courses[2].id

\* some teacher of the availability mapping is assigned more hours than the
\* pre-check counts as available
Overloaded(ta, cs) ==
    \E teacher \in DOMAIN ta :
        TotalAssignedHours(cs, teacher) > TotalAvailableHours(ta[teacher])

\* C11: when the pre-check finds an overloaded teacher, generate_schedule
\* builds no candidate block and no decision variable, posts no constraint,
\* never calls the solver, and leaves the schedule empty and the stored
\* availabilities as they were declared.
C11_RejectedLeavesNoTrace ==
    Overloaded(declared, courses) =>
        /\ all_blocks = <<>>
        /\ schedule_vars = {}
        /\ classroom_vars = {}
        /\ posted = {}
        /\ solver_calls = 0
        /\ status = "NONE"
        /\ schedule = <<>>
        /\ ~ normalized
        /\ teacher_availabilities = declared
        /\ pc \in {"start", "returned"}

\* a request that was rejected for an overloaded teacher and has returned
C11_Witness ==
    /\ Overloaded(declared, courses)
    /\ pc = "returned"
    /\ \E i \in 1..Len(courses) : courses[i].intensity > 0

\* the kind of the end of a request: rejected by the pre-check, a solver
\* verdict of INFEASIBLE, of UNKNOWN, or a generated schedule
KindOf(s) ==
    IF s.pc = "returned" /\ ~ s.normalized THEN "validation"
    ELSE IF s.pc = "returned" /\ s.status = "INFEASIBLE" THEN "infeasible"
    ELSE IF s.pc = "returned" /\ s.status = "UNKNOWN" THEN "timeout"
    ELSE IF s.pc = "returned" /\ s.status \in OkStatuses THEN "success"
    ELSE "other"

\* both requests of a pair have been answered
BothAnswered ==
    /\ other # <<>>
    /\ response # NoResponse
    /\ other.response # NoResponse

\* C12: two requests that end in different kinds (validation failure, solver
\* INFEASIBLE, solver UNKNOWN, success) can be told apart by their caller:
\* they differ in what generate_schedule returned or raised, or at least in
\* what the endpoint answered.
C12_Original ==
    (/\ BothAnswered
     /\ KindOf(Self) # "other"
     /\ KindOf(other) # "other"
     /\ KindOf(Self) # KindOf(other)) =>
        \/ OutcomeOf(Self) # OutcomeOf(other)
        \/ response # other.response

\* every course that needs time has all of it in the schedule
Complete ==
    \A i \in 1..Len(courses) :
        courses[i].intensity >= 1 =>
            TotalSlots(PlacementsOf(courses[i].id)) = courses[i].intensity * 2

\* C13: after a solver verdict other than OPTIMAL or FEASIBLE the schedule
\* holds no placement of any course, and when generate_schedule is over the
\* schedule is either empty or complete for all courses, never partial.
C13_NoPartialSchedule ==
    /\ (status \notin OkStatuses /\ status # "NONE") => schedule = <<>>
    /\ Finished => (schedule = <<>> \/ Complete)

\* two courses of one teacher, each with candidate blocks of its own, that
\* do not fit together: the solver said INFEASIBLE and the call returned
C13_Witness ==
    /\ pc = "returned"
    /\ status = "INFEASIBLE"
    /\ Len(courses) = 2
    /\ courses[1].teacher = courses[2].teacher
    /\ \A i \in 1..2 : VarsOfCourse(courses[i].id) # {}

\* one teacher who declared Monday 08:00-12:00 and nothing else, one course
\* of intensity 4 of that teacher, one room that fits the course
MondayMorningScenario ==
    /\ DOMAIN declared = {"T1"}
    /\ DOMAIN declared["T1"] = {"Lunes"}
    /\ declared["T1"]["Lunes"] = <<R0812>>
    /\ Len(courses) = 1
    /\ courses[1].teacher = "T1"
    /\ courses[1].intensity = 4
    /\ Len(classrooms) = 1
    /\ Fits(classrooms[1], courses[1])

\* C14: in that scenario the solver never answers INFEASIBLE, the call never
\* ends in an error, and the schedule it produces is exactly one placement:
\* Monday, 08:00-12:00, that teacher, that room.
C14_MondayMorning ==
    MondayMorningScenario =>
        /\ status # "INFEASIBLE"
        /\ pc \notin {"raised", "crashed"}
        /\ Produced =>
              /\ DOMAIN schedule = {courses[1].id}
              /\ schedule[courses[1].id] =
                    <<[day |-> "Lunes", hour |-> R0812, teacher |-> "T1",
                       classroom |-> classrooms[1].id,
                       semester |-> courses[1].semester]>>

\* the scenario has run and a schedule was produced
C14_Witness ==
    /\ MondayMorningScenario
    /\ Produced
    /\ schedule # <<>>

\* C15: within one request every call of the solver is the first one
\* (at most one call, no retry after any verdict) and is made when the
\* availability pre-check has passed, every course has a compatible room and
\* all eight constraint groups have been posted.
C15_SolveOnceAfterPosting ==
    [][solver_calls' # solver_calls =>
          /\ solver_calls = 0
          /\ solver_calls' = 1
          /\ status = "NONE"
          /\ ~ Overloaded(declared, courses)
          /\ normalized
          /\ \A i \in 1..Len(courses) : ~ NoRoomFits(courses[i])
          /\ posted = {"coverage", "one_block_per_day", "single_day",
                       "teacher_overlap", "lunch", "room_linkage",
                       "room_overlap", "load_cap"}]_vars

\* the solver was called once, its verdict was not a success, and the call
\* has returned without another attempt
C15_Witness ==
    /\ solver_calls = 1
    /\ status \in {"INFEASIBLE", "UNKNOWN"}
    /\ pc = "returned"

\* some declared range does not end after it starts
HasBackwardRange(ta) ==
    \E t \in DOMAIN ta : \E d \in DOMAIN ta[t] : \E i \in 1..Len(ta[t][d]) :
        LET r == ta[t][d][i]
        IN  r.eh * 60 + r.em <= r.sh * 60 + r.sm

\* C16: a request with a declared range whose end is not after its start
\* fails before any model is built: its availabilities are never normalized
\* (the range is never turned into an empty slot set), no decision variable
\* is built and no schedule is produced.
C16_Original ==
    HasBackwardRange(declared) =>
        /\ ~ normalized
        /\ schedule_vars = {}
        /\ ~ Produced

\* C17: a second call of generate_schedule on the same instance completes as
\* the first did: it does not end in an exception, and the schedule it leaves
\* after a solver success is the complete schedule of the courses, with no
\* placement kept from the first call.
C17_Original ==
    invocations > 1 =>
        /\ pc # "crashed"
        /\ Produced => Complete

\* C18: under every interleaving of two requests, the request being stepped
\* holds what it would hold had it run alone: its availabilities are its
\* own declared ones (normalized once its pre-check has passed), its
\* candidate blocks and decision variables are those of its own courses and
\* rooms, and its schedule is empty until its own extraction, and then is
\* the extraction of its own solver answer, itself a solution of its own
\* constraints.  (Every request of a pair is the one being stepped in some
\* reachable state, at every point of its run.)
C18_RequestsIsolated ==
    other # <<>> =>
        /\ teacher_availabilities =
              IF normalized THEN ParseAvailability(declared) ELSE declared
        /\ pc \in {"start", "parsed"} =>
              all_blocks = <<>> /\ schedule_vars = {} /\ classroom_vars = {}
        /\ pc \in {"built", "posted", "solved", "returned"} /\ normalized =>
              /\ all_blocks = BuildAllBlocks
              /\ schedule_vars = BuildScheduleVars(BuildAllBlocks)
              /\ classroom_vars = BuildClassroomVars(BuildAllBlocks)
        /\ ~ Produced => schedule = <<>>
        /\ Produced =>
              /\ <<sol_x, sol_y>> \in Solutions
              /\ schedule = ExtractFrom(VarSeq, <<>>, sol_x, sol_y).schedule

\* both requests of a pair have produced a schedule, and not the same one
C18_Witness ==
    /\ other # <<>>
    /\ Produced
    /\ other.pc = "returned"
    /\ other.status \in OkStatuses
    /\ schedule # <<>>
    /\ other.schedule # <<>>
    /\ schedule # other.schedule

\* the true duration in minutes of what a teacher declared on the five
\* weekdays, a range that does not end after its start counting nothing
TrueMinutes(availability) ==
    LET Minutes(r) ==
            IF r.eh * 60 + r.em > r.sh * 60 + r.sm
            THEN (r.eh * 60 + r.em) - (r.sh * 60 + r.sm) ELSE 0
        RECURSIVE DayMinutes(_, _)
        DayMinutes(slots, i) ==
            IF i > Len(slots) THEN 0
            ELSE Minutes(slots[i]) + DayMinutes(slots, i + 1)
        RECURSIVE W(_)
        W(i) == IF i > Len(Days) THEN 0
                ELSE (IF Days[i] \in DOMAIN availability
                      THEN DayMinutes(availability[Days[i]], 1) ELSE 0)
                     + W(i + 1)
    IN  W(1)

\* the pre-check has rejected the request
Rejected == pc = "returned" /\ ~ normalized

\* C19: once the pre-check has run, the request is rejected exactly when some
\* teacher of the availability mapping is assigned more hours than the true
\* duration (minutes included) of the ranges the teacher declared on the
\* five weekdays.
C19_Original ==
    pc # "start" =>
        (Rejected <=>
            \E teacher \in DOMAIN declared :
                TotalAssignedHours(courses, teacher) * 60
                    > TrueMinutes(declared[teacher]))

\* C20: the constraint model built from a request on which
\* validate_teacher_availability returns False has no satisfying assignment:
\* solved, its verdict is never OPTIMAL or FEASIBLE.
C20_Original ==
    (/\ ~ validate_teacher_availability(declared, courses)
     /\ pc = "solved") =>
        status \notin OkStatuses

\* C21: a request in which a course of intensity > 0 names a teacher absent
\* from the availability mapping is rejected by the pre-check before any
\* model is built: its availabilities are never normalized, no decision
\* variable is built, the solver is never called.
C21_Original ==
    (\E i \in 1..Len(courses) :
        /\ courses[i].intensity > 0
        /\ courses[i].teacher \notin DOMAIN declared) =>
        /\ ~ normalized
        /\ schedule_vars = {}
        /\ solver_calls = 0
        /\ pc \in {"start", "returned"}

\* the 30-minute slots lying inside a range: start <= 30 * i, 30 * i + 30 <= end
InsideSlots(r) ==
    {i \in AllSlots : /\ r.sh * 60 + r.sm <= 30 * i
                      /\ 30 * i + 30 <= r.eh * 60 + r.em}

\* C22: after parse_availability the list of every teacher and day is
\* strictly increasing, and every slot in it lies inside a declared range of
\* that teacher and day that ends after it starts, also when the range does
\* not start or end on a multiple of 30 minutes.
C22_Original ==
    normalized =>
        \A t \in DOMAIN declared : \A d \in DOMAIN declared[t] :
            LET slots == teacher_availabilities[t][d]
            IN  /\ \A i \in 1..(Len(slots) - 1) : slots[i] < slots[i + 1]
                /\ \A i \in 1..Len(slots) :
                      \E k \in 1..Len(declared[t][d]) :
                          LET r == declared[t][d][k]
                          IN  /\ r.sh * 60 + r.sm < r.eh * 60 + r.em
                              /\ slots[i] \in InsideSlots(r)

\* the windows [s, s + 1, ..., s + L - 1] all of whose elements are in the
\* list S, one per starting slot s, in ascending order of s
Windows(S, L) ==
    LET set    == SeqRange(S)
        starts == SortedSeq({s \in set : \A k \in 0..(L - 1) : s + k \in set})
    IN  [i \in 1..Len(starts) |-> [k \in 1..L |-> starts[i] + k - 1]]

\* the number of windows of length L counted run by run: a maximal run of n
\* consecutive slots gives n - L + 1 of them when n >= L, none otherwise
WindowCount(S, L) ==
    LET set == SeqRange(S)
        RunLength(s) ==
            Cardinality({e \in set : e >= s /\ \A m \in s..e : m \in set})
        RECURSIVE Sum(_)
        Sum(first) ==
            IF first = {} THEN 0
            ELSE LET s == CHOOSE a \in first : TRUE
                     n == RunLength(s)
                 IN  (IF n >= L THEN n - L + 1 ELSE 0) + Sum(first \ {s})
    IN  Sum({s \in set : s - 1 \notin set})

\* the candidate blocks the construction loop stored for a course and a day
StoredBlocks(course_id, day) ==
    IF <<course_id, day>> \in DOMAIN all_blocks
    THEN all_blocks[<<course_id, day>>] ELSE <<>>

\* C23: once the variables are built, the candidate blocks of every course of
\* intensity >= 1 on every weekday are, block length by block length, exactly
\* the windows of that length inside the teacher's slot list of the day, in
\* ascending order of their first slot and without duplicates, n - L + 1 of
\* them for each maximal run of n >= L consecutive slots.
C23_BlocksAreWindows ==
    (pc \in {"built", "posted", "solved", "returned"} /\ normalized) =>
        \A i \in 1..Len(courses) : \A d \in DaySet :
            courses[i].intensity >= 1 =>
                LET S     == Avail(teacher_availabilities, courses[i].teacher, d)
                    sizes == BlockSizes(courses[i])
                    got   == StoredBlocks(courses[i].id, d)
                    RECURSIVE Count(_)
                    Count(j) == IF j > Len(sizes) THEN 0
                                ELSE WindowCount(S, sizes[j]) + Count(j + 1)
                IN  /\ got = ConcatAll([j \in 1..Len(sizes) |->
                                          Windows(S, sizes[j])])
                    /\ Len(got) = Count(1)

\* a course whose teacher has, on some day, two separate runs of slots, one
\* of them too short for a block of 6, and several candidate blocks
C23_Witness ==
    /\ pc = "built"
    /\ \E i \in 1..Len(courses) : \E d \in DaySet :
          LET S == Avail(teacher_availabilities, courses[i].teacher, d)
          IN  /\ courses[i].intensity = 5
              /\ Len(StoredBlocks(courses[i].id, d)) >= 2
              /\ \E j \in 1..(Len(S) - 1) : S[j + 1] > S[j] + 1
              /\ WindowCount(S, 6) < WindowCount(S, 4)

\* C24: in every produced schedule a placement of a course of intensity <= 4
\* has exactly intensity * 2 slots, a placement of a course of intensity > 4
\* has 6 or 4 slots, and every course of intensity > 4 is placed on at least
\* two distinct days.
C24_PartitionPolicy ==
    Produced =>
        /\ \A p \in Placements :
              LET info == CourseById(p[1])
                  n    == Cardinality(SlotsOf(p))
              IN  IF info.intensity <= 4 THEN n = info.intensity * 2
                  ELSE n \in {6, 4}
        /\ \A i \in 1..Len(courses) :
              courses[i].intensity > 4 =>
                  Cardinality(DaysUsed(courses[i].id)) >= 2

\* a produced schedule with a course of intensity 5 placed in a block of 6
\* and a block of 4, although its teacher had 10 consecutive slots on a day
C24_Witness ==
    /\ Produced
    /\ \E i \in 1..Len(courses) :
          /\ courses[i].intensity = 5
          /\ {Cardinality(SlotsOf(p)) : p \in PlacementsOf(courses[i].id)} = {6, 4}
          /\ \E d \in DaySet :
                WindowCount(Avail(teacher_availabilities, courses[i].teacher, d),
                            10) >= 1

\* the entries of the schedule for a course
EntriesOf(course_id) ==
    IF course_id \in DOMAIN schedule THEN schedule[course_id] ELSE <<>>

\* C25: a produced schedule holds, course by course, as many entries as the
\* course has candidates solved to true, one for each of them: the entry of
\* a candidate carries its day, starts at first slot * 30 minutes, ends at
\* (last slot + 1) * 30 minutes, and normalizing its 'HH:MM-HH:MM' again
\* gives back exactly the slots of the block.
C25_ExtractionExact ==
    Produced =>
        /\ DOMAIN schedule \subseteq CourseIds
        /\ \A i \in 1..Len(courses) :
              LET cid == courses[i].id
              IN  Len(EntriesOf(cid)) = Cardinality(sol_x \cap VarsOfCourse(cid))
        /\ \A v \in sol_x :
              LET block == BlockOf(v)
                  mine  == {j \in 1..Len(EntriesOf(v[1])) :
                               /\ EntriesOf(v[1])[j].day = v[2]
                               /\ ParseDay(<<EntriesOf(v[1])[j].hour>>) = block}
              IN  /\ Cardinality(mine) = 1
                  /\ \A j \in mine :
                        LET h == EntriesOf(v[1])[j].hour
                        IN  /\ h.sh * 60 + h.sm = block[1] * 30
                            /\ h.eh * 60 + h.em = (block[Len(block)] + 1) * 30
                            /\ h.sm \in 0..59
                            /\ h.em \in 0..59

\* a produced schedule with two blocks or more, one starting on a half hour
C25_Witness ==
    /\ Produced
    /\ Cardinality(sol_x) >= 2
    /\ \E v \in sol_x : BlockOf(v)[1] % 2 = 1

\* how many times an entry occurs in a list
Occurrences(list, e) == Cardinality({i \in 1..Len(list) : list[i] = e})

\* C26: in the body the endpoint answers, which is what get_schedule_json
\* returns, the list of every course is ordered by weekday (Lunes, Martes,
\* Miercoles, Jueves, Viernes) and within a day by start time, and holds
\* the placements of the generated schedule, each as many times as there.
C26_JsonSorted ==
    response.kind = "body" =>
        /\ DOMAIN response.horario = DOMAIN schedule
        /\ \A c \in DOMAIN schedule :
              LET list == response.horario[c]
              IN  /\ Len(list) = Len(schedule[c])
                  /\ \A e \in SeqRange(list) \cup SeqRange(schedule[c]) :
                        Occurrences(list, e) = Occurrences(schedule[c], e)
                  /\ \A i \in 1..Len(list) : \A j \in (i + 1)..Len(list) :
                        \/ DayIndex(list[i].day) < DayIndex(list[j].day)
                        \/ /\ list[i].day = list[j].day
                           /\ list[i].hour.sh * 60 + list[i].hour.sm
                                 <= list[j].hour.sh * 60 + list[j].hour.sm

\* an answered request with a course placed on two days, the earlier day
\* holding the later 'HH:MM-HH:MM'
C26_Witness ==
    /\ response.kind = "body"
    /\ \E c \in DOMAIN response.horario :
          LET list == response.horario[c]
          IN  /\ Len(list) >= 2
              /\ DayIndex(list[1].day) < DayIndex(list[2].day)
              /\ ~ KeyLeqHourOnly(list[1], list[2])

\* ------------------------------------------------- requests with a long course
\* A request with a course of more than 15 hours.  The teacher of the long
\* course declares, in few ranges, 20 hours (two short ranges every
\* weekday), 16 hours (two long days and three short mornings) or 10 hours
\* (a short morning every weekday, which the pre-check turns down).
LongAvailabilities ==
    {[d \in DaySet |-> <<R0709, R1416>>],
     [d \in DaySet |-> <<R0709>>],
     MapOf({<<"Lunes", <<R0710, R1416>>>>, <<"Martes", <<R0710, R1416>>>>,
            <<"Miercoles", <<R0709>>>>, <<"Jueves", <<R0709>>>>,
            <<"Viernes", <<R0709>>>>})}

LongIntensities == {5, 16, 20}

\* the long course alone, or after a short course of another teacher
LongCourseSeqs ==
    {<<Course(1, "T1", h, "Aula", 20)>> : h \in LongIntensities}
    \cup
    {<<Course(1, "T2", 2, "Aula", 20), Course(2, "T1", h, "Aula", 20)>> :
        h \in LongIntensities}

LongInputs ==
    {[ta |-> MapOf({<<"T1", a>>, <<"T2", MapOf({<<"Lunes", <<R1013>>>>})>>}),
      cs |-> c, rooms |-> r] :
        a \in LongAvailabilities, c \in LongCourseSeqs,
        r \in {RoomsOneAula, RoomsTwoAulas}}

InitLong ==
    /\ \E inp \in LongInputs : Holds(Constructed(inp))
    /\ other = <<>>
    /\ cur = 1

SpecLong == InitLong /\ [][Next]_vars

\* a course of more than 15 hours is among the courses of the request
HasLongCourse == \E i \in 1..Len(courses) : courses[i].intensity > 15

\* C27: a request with a course of more than 15 hours never gets a
\* solution: the solver never answers OPTIMAL or FEASIBLE, the schedule
\* stays empty at every step, and the body answered holds no course.
C27_LongCourseNeverScheduled ==
    HasLongCourse =>
        /\ status \notin OkStatuses
        /\ sol_x = {}
        /\ schedule = <<>>
        /\ response.kind = "body" => DOMAIN response.horario = {}

\* the request passed the pre-check, every course had a room, the long
\* course has candidates on every weekday and the solver found the model
\* infeasible
C27_Witness ==
    /\ HasLongCourse
    /\ pc = "returned"
    /\ status = "INFEASIBLE"
    /\ response.kind = "body"
    /\ \E i \in 1..Len(courses) :
          /\ courses[i].intensity > 15
          /\ \A d \in DaySet : VarsOfDay(courses[i].id, d) # {}

====
